---------------------------- MODULE Spec2Model ----------------------------
(***************************************************************************)
(* Model of pymc/distributions/shape_utils.py: the shape broadcasting      *)
(* helpers, the normalisation of shape / size / dims, resize_from_dims,    *)
(* find_size and maybe_resize.                                             *)
(*                                                                         *)
(* Every function of the file is an operator computed the way the Python   *)
(* code computes it.  A specification draws the arguments of a call in     *)
(* Init (pc = "call") and one action applies the function (pc = "done").   *)
(*                                                                         *)
(* Python values:                                                          *)
(*   - an element of a user supplied shape is a tagged pair:               *)
(*       <<"int", n>>    the int n                                         *)
(*       <<"float", h>>  the float h/2 (so <<"float", 4>> is 2.0 and       *)
(*                       <<"float", 5>> is 2.5)                            *)
(*       <<"str", 0>>    a non-numeric string                              *)
(*   - a tuple of Python ints (a checked shape, ndarray.shape) is a        *)
(*     sequence of integers                                                *)
(*   - an Optional value is <<>> for None and <<v>> for the value v        *)
(*   - the outcome of a call is [kind |-> "return", val |-> v] or          *)
(*     [kind |-> <exception name>, val |-> <<>>]                           *)
(***************************************************************************)
EXTENDS Integers, Sequences, FiniteSets, TLC

VARIABLES
    pc,     \* "call": arguments drawn, "done": the function has returned or raised
    fn,     \* the function under call
    inp,    \* its arguments
    out,    \* its outcome
    model   \* the model on stack: its registry dim_lengths, name -> length

vars == <<pc, fn, inp, out, model>>

---------------------------------------------------------------------------
(* Bounds of the model *)

MaxDim == 3      \* largest dimension length in a shape
MaxRank == 2     \* largest number of dimensions of a shape
MaxArgs == 3     \* largest number of shapes handed to one call
MaxCells == 4    \* largest number of dimensions of the shapes of one call, in all

---------------------------------------------------------------------------
(* Python values *)

PyInt(n) == <<"int", n>>
PyFloat(h) == <<"float", h>>
PyStr == <<"str", 0>>

NoneVal == <<>>
Some(v) == <<v>>

Return(v) == [kind |-> "return", val |-> v]
Raise(e) == [kind |-> e, val |-> <<>>]
NoOutcome == [kind |-> "pending", val |-> <<>>]

\* a model without any named dimension
NoModel == [dim_lengths |-> [n \in {} |-> 0]]

Max(a, b) == IF a >= b THEN a ELSE b
Min(a, b) == IF a <= b THEN a ELSE b

\* s[:n] of Python, n >= 0 or negative (counted from the end)
SliceTo(s, n) ==
    LET stop == IF n >= 0 THEN Min(n, Len(s)) ELSE Max(Len(s) + n, 0)
    IN  SubSeq(s, 1, stop)

\* s[n:] of Python for n >= 0
SliceFrom(s, n) == SubSeq(s, Min(n, Len(s)) + 1, Len(s))

\* (1,) * n of Python: the empty tuple for n <= 0
Ones(n) == [i \in 1..Max(n, 0) |-> 1]

\* a tuple of Python ints seen as a user supplied shape
AsPyInts(t) == [i \in 1..Len(t) |-> PyInt(t[i])]

---------------------------------------------------------------------------
(* to_tuple, _check_shape_type *)

\* int(s): truncation of a float, ValueError for a non-numeric string
int_raises(s) == s[1] = "str"
int(s) == IF s[1] = "int" THEN s[2] ELSE s[2] \div 2

\* o != s of _check_shape_type, o = int(s)
differs_from_int(s) == IF s[1] = "int" THEN FALSE ELSE 2 * int(s) # s[2]

\* [ok |-> TRUE, val |-> tuple of ints] or, for the TypeError, ok = FALSE
_check_shape_type(shape) ==
    IF \E i \in 1..Len(shape) : int_raises(shape[i]) \/ differs_from_int(shape[i])
    THEN [ok |-> FALSE, val |-> <<>>]
    ELSE [ok |-> TRUE, val |-> [i \in 1..Len(shape) |-> int(shape[i])]]

---------------------------------------------------------------------------
(* shapes_broadcasting *)

\* all(x): every element is truthy
all(x) == \A i \in 1..Len(x) : x[i] # 0

\* j if i == 1 else i if j == 1 else i if i == j else 0
broadcast_pair_no_check(i, j) == IF i = 1 THEN j ELSE i

broadcast_pair(i, j) ==
    IF i = 1 THEN j ELSE IF j = 1 THEN i ELSE IF i = j THEN i ELSE 0

\* x[-len(y):] = [... for i, j in zip(x[-len(y):], y)], len(y) <= len(x)
broadcast_tail(x, y) ==
    IF Len(y) > 0
    THEN [k \in 1..Len(x) |->
            IF k <= Len(x) - Len(y)
            THEN x[k]
            ELSE broadcast_pair(x[k], y[k - (Len(x) - Len(y))])]
    ELSE x

\* the for loop over args[1:], from the k-th argument on, x the running shape
RECURSIVE broadcast_loop(_, _, _, _)
broadcast_loop(x, args, k, raise_exception) ==
    IF k > Len(args)
    THEN Return(Some(x))
    ELSE LET c == _check_shape_type(args[k])
         IN  IF ~c.ok
             THEN Raise("TypeError")
             ELSE LET swap == Len(x) < Len(c.val)
                      x1 == IF swap THEN c.val ELSE x
                      y1 == IF swap THEN x ELSE c.val
                      x2 == broadcast_tail(x1, y1)
                  IN  IF ~all(x2)
                      THEN IF raise_exception
                           THEN Raise("ValueError")
                           ELSE Return(NoneVal)
                      ELSE broadcast_loop(x2, args, k + 1, raise_exception)

shapes_broadcasting(args, raise_exception) ==
    IF Len(args) = 0
    THEN Return(Some(<<>>))
    ELSE LET c == _check_shape_type(args[1])
         IN  IF ~c.ok
             THEN Raise("TypeError")
             ELSE broadcast_loop(c.val, args, 2, raise_exception)

---------------------------------------------------------------------------
(* Arguments of the calls *)

IntEntries == {PyInt(n) : n \in 0..MaxDim}

\* two ints, the floats MaxDim - 1 (integral) and MaxDim - 1/2, and a string
MixedEntries ==
    {PyInt(MaxDim - 1), PyInt(MaxDim), PyFloat(2 * MaxDim - 2),
     PyFloat(2 * MaxDim - 1), PyStr}

RECURSIVE Sum(_)
Sum(s) == IF Len(s) = 0 THEN 0 ELSE s[1] + Sum(Tail(s))

\* the numbers of dimensions of lo to hi shapes, each of at most rank
\* dimensions and all of them together of at most cells dimensions
RankLists(lo, hi, rank, cells) ==
    {rk \in UNION {[1..n -> 0..rank] : n \in lo..hi} : Sum(rk) <= cells}

\* the list of shapes of rk dimensions whose elements are, in order, those of c
RECURSIVE ShapeList(_, _)
ShapeList(c, rk) ==
    IF Len(rk) = 0
    THEN <<>>
    ELSE <<SubSeq(c, 1, rk[1])>>
         \o ShapeList(SubSeq(c, rk[1] + 1, Len(c)), Tail(rk))

---------------------------------------------------------------------------
(* Specification of the calls of shapes_broadcasting *)

InitShapes ==
    /\ pc = "call"
    /\ fn = "shapes_broadcasting"
    /\ \E rk \in RankLists(0, MaxArgs, MaxRank, MaxCells) :
       \E E \in {IntEntries, MixedEntries} :
       \E c \in [1..Sum(rk) -> E] :
       \E raise_exception \in BOOLEAN :
          inp = [args |-> ShapeList(c, rk), raise_exception |-> raise_exception]
    /\ out = NoOutcome
    /\ model = NoModel

ShapesBroadcasting ==
    /\ pc = "call"
    /\ fn = "shapes_broadcasting"
    /\ out' = shapes_broadcasting(inp.args, inp.raise_exception)
    /\ pc' = "done"
    /\ UNCHANGED <<fn, inp, model>>

NextShapes == ShapesBroadcasting

SpecShapes == InitShapes /\ [][NextShapes]_vars

---------------------------------------------------------------------------
(* to_tuple, broadcast_dist_samples_shape *)

\* A size (or must_bcast_with) argument: None, an int or a tuple
PyNone == [tag |-> "None", v |-> <<>>]
PyScalar(n) == [tag |-> "int", v |-> <<n>>]
PyTuple(t) == [tag |-> "tuple", v |-> t]

\* None -> (), an int n -> (n,), a sequence -> tuple(sequence)
to_tuple(shape) ==
    IF shape.tag = "None" THEN <<>>
    ELSE IF Len(shape.v) = 0 THEN <<>>
    ELSE shape.v

\* _size == s[: min([len(_size), len(s)])]
size_prepends_min(_size, s) == _size = SliceTo(s, Min(Len(_size), Len(s)))

\* _size == shape[: len(_size)]
size_prepends(_size, shape) == _size = SliceTo(shape, Len(_size))

\* s[len(_size):] if the size prepends s, else s
sp_shape(_size, s) ==
    IF size_prepends_min(_size, s) THEN SliceFrom(s, Len(_size)) ELSE s

\* the shape with the broadcasting axes added in the middle
p_shape_no_axes(_size, shape, sp, broadcast_shape) == shape

p_shape(_size, shape, sp, broadcast_shape) ==
    IF size_prepends(_size, shape)
    THEN SliceTo(shape, Len(_size))
         \o Ones(Len(broadcast_shape) - Len(sp))
         \o SliceFrom(shape, Len(_size))
    ELSE shape

\* the outcome of shapes_broadcasting as the outcome of a function that
\* returns a tuple or raises
tuple_or_raise(r) == IF r.kind = "return" THEN Return(r.val[1]) ELSE r

broadcast_dist_samples_shape(shapes, size) ==
    IF size.tag = "None"
    THEN LET broadcasted_shape == shapes_broadcasting(shapes, FALSE)
         IN  IF broadcasted_shape.kind = "return" /\ broadcasted_shape.val = NoneVal
             THEN Raise("ValueError")
             ELSE tuple_or_raise(broadcasted_shape)
    ELSE LET checked == [a \in 1..Len(shapes) |-> _check_shape_type(shapes[a])]
         IN  IF \E a \in 1..Len(shapes) : ~checked[a].ok
             THEN Raise("TypeError")
             ELSE LET shp == [a \in 1..Len(shapes) |-> checked[a].val]
                      _size == to_tuple(size)
                      sp_shapes == [a \in 1..Len(shp) |-> sp_shape(_size, shp[a])]
                      bs == shapes_broadcasting(
                                [a \in 1..Len(shp) |-> AsPyInts(sp_shapes[a])], TRUE)
                  IN  IF bs.kind # "return"
                      THEN Raise("ValueError")
                      ELSE LET broadcast_shape == bs.val[1]
                               broadcastable_shapes ==
                                   [a \in 1..Len(shp) |->
                                       p_shape(_size, shp[a], sp_shapes[a], broadcast_shape)]
                           IN  tuple_or_raise(shapes_broadcasting(
                                   [a \in 1..Len(shp) |-> AsPyInts(broadcastable_shapes[a])],
                                   TRUE))

---------------------------------------------------------------------------
(* get_broadcastable_dist_samples, broadcast_dist_samples_to.  An ndarray  *)
(* is modelled by its shape, a tuple of ints.                              *)

\* the shape of param[tuple(slicer_head + slicer_tail)]: one slice per
\* dimension of param, len(broadcast_shape) - len(sp_shape) new axes after
\* the first len(_size) of them when the size prepends the shape
sample_view(_size, pshape, sp, broadcast_shape) ==
    IF size_prepends_min(_size, pshape)
    THEN SliceTo(pshape, Len(_size))
         \o Ones(Len(broadcast_shape) - Len(sp))
         \o SliceFrom(pshape, Len(_size))
    ELSE pshape

\* return_out_shape=True: [kind, val |-> <<views, out_shape>>]
get_broadcastable_dist_samples(samples, size, must_bcast_with) ==
    LET _size == to_tuple(size)
        must == _check_shape_type(to_tuple(must_bcast_with))
    IN  IF ~must.ok
        THEN Raise("TypeError")
        ELSE LET p_shapes == samples \o <<must.val>>
                 out_shape == broadcast_dist_samples_shape(
                                  [a \in 1..Len(p_shapes) |-> AsPyInts(p_shapes[a])], size)
             IN  IF out_shape.kind # "return"
                 THEN out_shape
                 ELSE LET sp_shapes == [a \in 1..Len(p_shapes) |->
                                           sp_shape(_size, p_shapes[a])]
                          bs == shapes_broadcasting(
                                    [a \in 1..Len(p_shapes) |-> AsPyInts(sp_shapes[a])],
                                    TRUE)
                      IN  IF bs.kind # "return"
                          THEN bs
                          ELSE Return(<<[a \in 1..Len(samples) |->
                                            sample_view(_size, p_shapes[a],
                                                        sp_shapes[a], bs.val[1])],
                                        out_shape.val>>)

\* numpy.broadcast_to(o, shape): o can be stretched to shape
can_broadcast_to(o, shape) ==
    /\ Len(o) <= Len(shape)
    /\ \A k \in 1..Len(o) :
          \/ o[k] = 1
          \/ o[k] = shape[Len(shape) - Len(o) + k]

\* the shapes of [np.broadcast_to(o, to_shape) for o in samples]
broadcast_dist_samples_to(to_shape, samples, size) ==
    LET r == get_broadcastable_dist_samples(samples, size, to_shape)
    IN  IF r.kind # "return"
        THEN r
        ELSE LET views == r.val[1]
                 out_shape == r.val[2]
             IN  IF \E a \in 1..Len(views) : ~can_broadcast_to(views[a], out_shape)
                 THEN Raise("ValueError")
                 ELSE Return([a \in 1..Len(views) |-> out_shape])

---------------------------------------------------------------------------
(* Specification of the calls of broadcast_dist_samples_shape and          *)
(* broadcast_dist_samples_to                                               *)

MaxSizeRank == 1     \* largest length of a size tuple
MaxSamples == 2      \* largest number of sample arrays handed to one call
MaxSampleDim == 2    \* largest dimension length of a sample array
MaxSampleCells == 3  \* largest number of dimensions of the samples and to_shape, in all

\* size: None, an int or a tuple of ints up to maxdim
Sizes(maxdim) ==
    {PyNone} \cup {PyScalar(n) : n \in 0..maxdim}
             \cup {PyTuple(t) : t \in UNION {[1..k -> 0..maxdim] : k \in 0..MaxSizeRank}}

InitSamplesShape ==
    /\ pc = "call"
    /\ fn = "broadcast_dist_samples_shape"
    /\ out = NoOutcome
    /\ model = NoModel
    /\ \E rk \in RankLists(0, MaxArgs, MaxRank, MaxCells) :
       \E c \in [1..Sum(rk) -> IntEntries] :
       \E size \in Sizes(MaxDim) :
          inp = [shapes |-> ShapeList(c, rk), size |-> size]

BroadcastDistSamplesShape ==
    /\ pc = "call"
    /\ fn = "broadcast_dist_samples_shape"
    /\ out' = broadcast_dist_samples_shape(inp.shapes, inp.size)
    /\ pc' = "done"
    /\ UNCHANGED <<fn, inp, model>>

NextSamplesShape == BroadcastDistSamplesShape

SpecSamplesShape == InitSamplesShape /\ [][NextSamplesShape]_vars

\* the shapes of the samples, then to_shape
InitSamplesTo ==
    /\ pc = "call"
    /\ fn = "broadcast_dist_samples_to"
    /\ out = NoOutcome
    /\ model = NoModel
    /\ \E rk \in RankLists(1, MaxSamples + 1, MaxRank, MaxSampleCells) :
       \E c \in [1..Sum(rk) -> 0..MaxSampleDim] :
       \E size \in Sizes(MaxSampleDim) :
          LET l == ShapeList(c, rk)
          IN  inp = [to_shape |-> PyTuple(AsPyInts(l[Len(l)])),
                     samples |-> SubSeq(l, 1, Len(l) - 1),
                     size |-> size]

BroadcastDistSamplesTo ==
    /\ pc = "call"
    /\ fn = "broadcast_dist_samples_to"
    /\ out' = broadcast_dist_samples_to(inp.to_shape, inp.samples, inp.size)
    /\ pc' = "done"
    /\ UNCHANGED <<fn, inp, model>>

NextSamplesTo == BroadcastDistSamplesTo

SpecSamplesTo == InitSamplesTo /\ [][NextSamplesTo]_vars

---------------------------------------------------------------------------
(* convert_dims, convert_shape, convert_size.  A user supplied value is    *)
(* [tag, v]: tag is its type ("None", "str", "int", "tensor0" for a        *)
(* TensorVariable of ndim 0, "tensor1" for one of ndim > 0, "list",        *)
(* "tuple", "other" for any other type), v the sequence of its elements    *)
(* (the value itself for a scalar).  An element of a shape or size is      *)
(* <<"int", n>>, <<"tensor", 0>> or <<"Ellipsis", 0>>; an element of dims  *)
(* is <<"str", name>>, <<"None", "">> or <<"Ellipsis", "">>.               *)

ShapeEllipsis == <<"Ellipsis", 0>>
PyTensor == <<"tensor", 0>>
DimName(n) == <<"str", n>>
DimNone == <<"None", "">>
DimEllipsis == <<"Ellipsis", "">>

\* d == Ellipsis
is_Ellipsis(d) == d[1] = "Ellipsis"

\* any(d == Ellipsis for d in t[:-1])
Ellipsis_before_last(t) == \E i \in 1..Len(SliceTo(t, -1)) : is_Ellipsis(t[i])

\* Ellipsis in t
Ellipsis_in(t) == \E i \in 1..Len(t) : is_Ellipsis(t[i])

convert_dims(dims) ==
    IF dims.tag = "None"
    THEN Return(NoneVal)
    ELSE IF dims.tag \notin {"str", "list", "tuple"}
    THEN Raise("ValueError")
    ELSE IF Ellipsis_before_last(dims.v)
    THEN Raise("ValueError")
    ELSE Return(Some(dims.v))

convert_shape(shape) ==
    IF shape.tag = "None"
    THEN Return(NoneVal)
    ELSE IF shape.tag \notin {"int", "tensor0", "list", "tuple"}
    THEN Raise("ValueError")
    ELSE IF Ellipsis_before_last(shape.v)
    THEN Raise("ValueError")
    ELSE Return(Some(shape.v))

convert_size_last_allowed(size) == convert_shape(size)

convert_size(size) ==
    IF size.tag = "None"
    THEN Return(NoneVal)
    ELSE IF size.tag \notin {"int", "tensor0", "list", "tuple"}
    THEN Raise("ValueError")
    ELSE IF Ellipsis_in(size.v)
    THEN Raise("ValueError")
    ELSE Return(Some(size.v))

---------------------------------------------------------------------------
(* Specification of the calls of convert_dims, convert_shape, convert_size *)

MaxSeqLen == 3    \* largest length of a user supplied shape or dims sequence

Names == {"a", "b"}

DimsElements == {DimName(n) : n \in Names} \cup {DimNone, DimEllipsis}

ShapeElements == {PyInt(n) : n \in 0..MaxDim} \cup {PyTensor, ShapeEllipsis}

SeqsOver(E, n) == UNION {[1..k -> E] : k \in 0..n}

UserValues(scalars, E) ==
    {PyNone}
    \cup {[tag |-> sc[1], v |-> <<sc[2]>>] : sc \in scalars}
    \cup {[tag |-> t, v |-> q] : t \in {"list", "tuple", "other"}, q \in SeqsOver(E, MaxSeqLen)}

UserDims ==
    UserValues({<<"str", DimName(n)>> : n \in Names}, DimsElements)

UserShapes ==
    UserValues({<<"int", PyInt(n)>> : n \in 0..MaxDim}
               \cup {<<"tensor0", PyTensor>>, <<"tensor1", PyTensor>>}, ShapeElements)

InitConvert ==
    /\ pc = "call"
    /\ out = NoOutcome
    /\ model = NoModel
    /\ \/ fn = "convert_dims" /\ inp \in UserDims
       \/ fn = "convert_shape" /\ inp \in UserShapes
       \/ fn = "convert_size" /\ inp \in UserShapes

ConvertDims ==
    /\ pc = "call"
    /\ fn = "convert_dims"
    /\ out' = convert_dims(inp)
    /\ pc' = "done"
    /\ UNCHANGED <<fn, inp, model>>

ConvertShape ==
    /\ pc = "call"
    /\ fn = "convert_shape"
    /\ out' = convert_shape(inp)
    /\ pc' = "done"
    /\ UNCHANGED <<fn, inp, model>>

ConvertSize ==
    /\ pc = "call"
    /\ fn = "convert_size"
    /\ out' = convert_size(inp)
    /\ pc' = "done"
    /\ UNCHANGED <<fn, inp, model>>

NextConvert == ConvertDims \/ ConvertShape \/ ConvertSize

SpecConvert == InitConvert /\ [][NextConvert]_vars

---------------------------------------------------------------------------
(* resize_from_dims *)

\* (*dims[:-1], *[None] * ndim_implied) when Ellipsis is in dims
expand_dims(dims, ndim_implied) ==
    IF Ellipsis_in(dims)
    THEN SliceTo(dims, -1) \o [i \in 1..Max(ndim_implied, 0) |-> DimNone]
    ELSE dims

\* set(model.dim_lengths): the keys of the registry, as elements of dims
registered(m) == {DimName(n) : n \in DOMAIN m.dim_lengths}

\* dims[:ndim_resize]
resize_dims(dims, ndim_resize) == SliceTo(dims, ndim_resize)

\* returns <<ndim_resize, resize_shape, dims>> or raises KeyError, val the
\* set of unknown dimensions named in the message
resize_from_dims(dims, ndim_implied, m) ==
    LET dims1 == expand_dims(dims, ndim_implied)
        ndim_resize == Len(dims1) - ndim_implied
        lead == resize_dims(dims1, ndim_resize)
        unknowndim_resize_dims == {lead[i] : i \in 1..Len(lead)} \ registered(m)
    IN  IF unknowndim_resize_dims # {}
        THEN [kind |-> "KeyError", val |-> unknowndim_resize_dims]
        ELSE Return(<<ndim_resize,
                      [i \in 1..Len(lead) |-> m.dim_lengths[lead[i][2]]],
                      dims1>>)

---------------------------------------------------------------------------
(* Specification of the calls of resize_from_dims *)

MaxNdim == 4      \* largest number of dimensions of a random variable

\* dims as convert_dims returns them: an Ellipsis only in the last position
WeakDims ==
    LET plain == SeqsOver({DimName(n) : n \in Names} \cup {DimNone}, MaxSeqLen)
    IN  plain \cup {Append(q, DimEllipsis) : q \in {d \in plain : Len(d) < MaxSeqLen}}

Models == {[dim_lengths |-> f] : f \in UNION {[S -> 2..MaxDim] : S \in SUBSET Names}}

InitDims ==
    /\ pc = "call"
    /\ fn = "resize_from_dims"
    /\ out = NoOutcome
    /\ model \in Models
    /\ inp \in [dims : WeakDims, ndim_implied : 0..MaxNdim, model : {model}]

ResizeFromDims ==
    /\ pc = "call"
    /\ fn = "resize_from_dims"
    /\ out' = resize_from_dims(inp.dims, inp.ndim_implied, model)
    /\ pc' = "done"
    /\ UNCHANGED <<fn, inp, model>>

NextDims == ResizeFromDims

SpecDims == InitDims /\ [][NextDims]_vars

---------------------------------------------------------------------------
(* find_size.  shape and size are Optional tuples, as convert_shape and    *)
(* convert_size return them.                                               *)

\* tuple(shape)[:ndim_batch]
leading(shape, ndim_batch) == SliceTo(shape, ndim_batch)

\* returns (create_size, ndim_expected, ndim_batch, ndim_supp)
find_size(shape, size, ndim_supp) ==
    IF shape # NoneVal
    THEN IF Ellipsis_in(shape[1])
         THEN [create_size |-> NoneVal, ndim_expected |-> NoneVal,
               ndim_batch |-> NoneVal, ndim_supp |-> ndim_supp]
         ELSE LET ndim_expected == Len(shape[1])
                  ndim_batch == ndim_expected - ndim_supp
              IN  [create_size |-> Some(leading(shape[1], ndim_batch)),
                   ndim_expected |-> Some(ndim_expected),
                   ndim_batch |-> Some(ndim_batch), ndim_supp |-> ndim_supp]
    ELSE IF size # NoneVal
    THEN LET ndim_expected == ndim_supp + Len(size[1])
         IN  [create_size |-> size, ndim_expected |-> Some(ndim_expected),
              ndim_batch |-> Some(ndim_expected - ndim_supp), ndim_supp |-> ndim_supp]
    ELSE [create_size |-> NoneVal, ndim_expected |-> NoneVal,
          ndim_batch |-> NoneVal, ndim_supp |-> ndim_supp]

---------------------------------------------------------------------------
(* maybe_resize.  A random variable is [ndim, by]: its number of           *)
(* dimensions and who made it ("caller": the rv_out handed in, "rv_op",    *)
(* "change_rv_size").  The outcome carries the variable and the calls made *)
(* on the way, each [call, arg, ndim]: rv_op with its size argument and    *)
(* the ndim of what it returned, change_rv_size with new_size and the ndim *)
(* of what it returned, warn with the ndim_actual of the message.          *)

\* pymc.aesaraf.change_rv_size(rv_var, new_size, expand=True): the new
\* dimensions are prepended, the existing ones retained
change_rv_size(rv_var, new_size) ==
    [ndim |-> rv_var.ndim + Len(new_size), by |-> "change_rv_size"]

Effect(call, arg, ndim) == [call |-> call, arg |-> arg, ndim |-> ndim]

\* ndim_actual != ndim_expected, ndim_expected an Optional int
differs_known(ndim_actual, ndim_expected) ==
    IF ndim_expected = NoneVal THEN FALSE ELSE ndim_actual # ndim_expected[1]

differs(ndim_actual, ndim_expected) ==
    IF ndim_expected = NoneVal THEN TRUE ELSE ndim_actual # ndim_expected[1]

\* rv_out.ndim < ndim_expected
falls_short_or_meets(rv, ndim_expected) == rv.ndim <= ndim_expected

falls_short(rv, ndim_expected) == rv.ndim < ndim_expected

\* the shape branch (lines 646-665), taken when shape is given and the
\* dimensionality is unexpected; recreated is the ndim of the variable
\* rv_op(*dist_params, size=None, **kwargs) returns
resize_by_shape(rv_out, recreated, ndim_expected, ndim_batch, shape) ==
    IF Ellipsis_in(shape)
    THEN LET rv1 == change_rv_size(rv_out, SliceTo(shape, -1))
         IN  [kind |-> "ok", rv |-> rv1,
              effects |-> <<Effect("change_rv_size", SliceTo(shape, -1), rv1.ndim)>>]
    ELSE LET rv1 == [ndim |-> recreated, by |-> "rv_op"]
             e1 == <<Effect("rv_op", NoneVal, recreated)>>
         IN  IF ndim_expected = NoneVal
             THEN [kind |-> "TypeError", rv |-> rv1, effects |-> e1]
             ELSE LET short == falls_short(rv1, ndim_expected[1])
                      expand_shape == SliceTo(shape, ndim_expected[1] - rv1.ndim)
                      rv2 == IF short THEN change_rv_size(rv1, expand_shape) ELSE rv1
                      e2 == IF short
                            THEN e1 \o <<Effect("change_rv_size", expand_shape, rv2.ndim)>>
                            ELSE e1
                  IN  IF rv2.ndim # ndim_expected[1]
                      THEN [kind |-> IF ndim_batch = NoneVal
                                     THEN "TypeError" ELSE "ShapeError",
                            rv |-> rv2, effects |-> e2]
                      ELSE [kind |-> "ok", rv |-> rv2, effects |-> e2]

\* shape is not None and ndims_unexpected
shape_branch_always(shape, ndims_unexpected) == shape # NoneVal

shape_branch(shape, ndims_unexpected) == shape # NoneVal /\ ndims_unexpected

\* size is not None and ndims_unexpected
warn_branch_any_size(size, ndims_unexpected) == ndims_unexpected

warn_branch(size, ndims_unexpected) == size # NoneVal /\ ndims_unexpected

maybe_resize(rv_out, recreated, ndim_expected, ndim_batch, ndim_supp, shape, size) ==
    LET ndim_actual == rv_out.ndim
        ndims_unexpected == differs(ndim_actual, ndim_expected)
        resized == IF shape_branch(shape, ndims_unexpected)
                   THEN resize_by_shape(rv_out, recreated, ndim_expected,
                                        ndim_batch, shape[1])
                   ELSE [kind |-> "ok", rv |-> rv_out, effects |-> <<>>]
    IN  IF resized.kind # "ok"
        THEN [kind |-> resized.kind,
              val |-> [rv |-> resized.rv, effects |-> resized.effects]]
        ELSE IF warn_branch(size, ndims_unexpected)
        THEN Return([rv |-> resized.rv,
                     effects |-> resized.effects
                                 \o <<Effect("warn", <<>>, ndim_actual)>>])
        ELSE Return([rv |-> resized.rv, effects |-> resized.effects])

---------------------------------------------------------------------------
(* Specification of the creation of a random variable: find_size, the      *)
(* creation of rv_out by the caller, maybe_resize                          *)

MaxSizeLen == 2   \* largest length of the size of a random variable
MaxSupp == 3      \* largest ndim_supp

\* the lengths used in the shape and size of a random variable
RVLengths == {PyInt(2), PyInt(3)}

\* shapes as convert_shape returns them: an Ellipsis only in the last position
WeakShapes ==
    LET plain == SeqsOver(RVLengths, MaxSeqLen)
    IN  plain \cup {Append(q, ShapeEllipsis) : q \in {d \in plain : Len(d) < MaxSeqLen}}

Optional(S) == {NoneVal} \cup {Some(x) : x \in S}

InitCreate ==
    /\ pc = "call"
    /\ fn = "find_size"
    /\ out = NoOutcome
    /\ model = NoModel
    /\ inp \in [shape : Optional(WeakShapes),
                size : Optional(SeqsOver(RVLengths, MaxSizeLen)),
                ndim_supp : 0..MaxSupp]

FindSize ==
    /\ pc = "call"
    /\ fn = "find_size"
    /\ out' = Return(find_size(inp.shape, inp.size, inp.ndim_supp))
    /\ pc' = "done"
    /\ UNCHANGED <<fn, inp, model>>

\* The caller creates rv_out = rv_op(*dist_params, size=create_size), a
\* variable of at least ndim_supp dimensions, and hands it to maybe_resize
\* with what find_size returned.
CreateRV ==
    /\ pc = "done"
    /\ fn = "find_size"
    /\ \E ndim \in inp.ndim_supp..MaxNdim :
          inp' = [rv_out |-> [ndim |-> ndim, by |-> "caller"],
                  ndim_expected |-> out.val.ndim_expected,
                  ndim_batch |-> out.val.ndim_batch,
                  ndim_supp |-> out.val.ndim_supp,
                  shape |-> inp.shape,
                  size |-> inp.size]
    /\ fn' = "maybe_resize"
    /\ pc' = "call"
    /\ out' = NoOutcome
    /\ UNCHANGED model

MaybeResize ==
    /\ pc = "call"
    /\ fn = "maybe_resize"
    /\ \E recreated \in inp.ndim_supp..MaxNdim :
          out' = maybe_resize(inp.rv_out, recreated, inp.ndim_expected,
                              inp.ndim_batch, inp.ndim_supp, inp.shape, inp.size)
    /\ pc' = "done"
    /\ UNCHANGED <<fn, inp, model>>

NextCreate == FindSize \/ CreateRV \/ MaybeResize

SpecCreate == InitCreate /\ [][NextCreate]_vars

---------------------------------------------------------------------------
(* Specification of the calls of maybe_resize with arguments of its own:   *)
(* ndim_expected and ndim_batch need not be those find_size returns        *)

\* size matters by being given and by its length only
ResizeSizes == Optional(SeqsOver({PyInt(2)}, MaxSizeLen))

InitResize ==
    /\ pc = "call"
    /\ fn = "maybe_resize"
    /\ out = NoOutcome
    /\ model = NoModel
    /\ \E ndim \in 0..MaxNdim :
          inp \in [rv_out : {[ndim |-> ndim, by |-> "caller"]},
                   ndim_expected : Optional(0..MaxNdim),
                   ndim_batch : Optional({0}),
                   ndim_supp : 0..MaxSupp,
                   shape : Optional(WeakShapes),
                   size : ResizeSizes]

NextResize == MaybeResize

SpecResize == InitResize /\ [][NextResize]_vars

---------------------------------------------------------------------------
(* NumPy's broadcasting rule, stated on its own for the claims *)

\* every element of every shape is an integral number
AllValid(args) ==
    \A a \in 1..Len(args) : \A i \in 1..Len(args[a]) :
        /\ args[a][i][1] \in {"int", "float"}
        /\ (args[a][i][1] = "float" => args[a][i][2] % 2 = 0)

SomeMalformed(args) == ~AllValid(args)

ValueOf(e) == IF e[1] = "int" THEN e[2] ELSE e[2] \div 2

RankOf(args) ==
    IF Len(args) = 0 THEN 0
    ELSE CHOOSE r \in {Len(args[a]) : a \in 1..Len(args)} :
            \A a \in 1..Len(args) : Len(args[a]) <= r

\* the shape a holds a dimension at the p-th position counted from the end
Holds(args, a, p) == p <= Len(args[a])

EntryAt(args, a, p) == ValueOf(args[a][Len(args[a]) - p + 1])

\* two different entries, both unequal to 1, at one trailing-aligned position
Clash(args) ==
    \E p \in 1..RankOf(args) : \E a, b \in 1..Len(args) :
        /\ Holds(args, a, p) /\ Holds(args, b, p)
        /\ EntryAt(args, a, p) # 1 /\ EntryAt(args, b, p) # 1
        /\ EntryAt(args, a, p) # EntryAt(args, b, p)

NonOnes(args, p) ==
    {EntryAt(args, a, p) : a \in {b \in 1..Len(args) : Holds(args, b, p)}} \ {1}

\* max of the non-1 entries at each trailing position, 1 if there is none
NumpyBroadcast(args) ==
    [k \in 1..RankOf(args) |->
        LET nz == NonOnes(args, RankOf(args) - k + 1)
        IN  IF nz = {} THEN 1 ELSE CHOOSE m \in nz : \A n \in nz : n <= m]

Called(f) == pc = "done" /\ fn = f

---------------------------------------------------------------------------
(* Claims on shapes_broadcasting *)

\* C1: for one or more valid shapes (0 allowed as a dimension) that are
\* broadcast-compatible under the NumPy rule, shapes_broadcasting returns
\* the tuple of NumPy's rule: rank = the largest rank, each entry the max
\* of the non-1 entries at its trailing position or 1; never None, never
\* an exception.
C1_BroadcastResult ==
    (/\ Called("shapes_broadcasting")
     /\ Len(inp.args) >= 1
     /\ AllValid(inp.args)
     /\ ~Clash(inp.args))
    => (/\ out.kind = "return"
        /\ out.val = Some(NumpyBroadcast(inp.args)))

\* C2: for valid shapes that clash at some trailing position,
\* shapes_broadcasting raises ValueError when raise_exception is True and
\* returns None when it is False, in every order of the arguments.
C2_IncompatibleFails ==
    (/\ Called("shapes_broadcasting")
     /\ AllValid(inp.args)
     /\ Clash(inp.args))
    => IF inp.raise_exception
       THEN out.kind = "ValueError"
       ELSE out.kind = "return" /\ out.val = NoneVal

\* C2 witness: the clash is between the first and the last of three shapes, the
\* one in between is compatible with both
C2_Witness ==
    /\ Called("shapes_broadcasting")
    /\ inp.args = <<<<PyInt(2)>>, <<PyInt(1), PyInt(1)>>, <<PyInt(3)>>>>
    /\ inp.raise_exception
    /\ out.kind = "ValueError"

\* C3: whenever some argument has a non-numeric or non-integral entry,
\* shapes_broadcasting raises TypeError, whatever the position of that
\* argument, the compatibility of the arguments before it and the value of
\* raise_exception.
C3_TypeErrorFirst ==
    (/\ Called("shapes_broadcasting")
     /\ SomeMalformed(inp.args))
    => out.kind = "TypeError"

---------------------------------------------------------------------------
(* Claims on broadcast_dist_samples_shape and broadcast_dist_samples_to *)

\* the size argument as a tuple of ints
SizeTuple(size) == IF size.tag = "None" THEN <<>> ELSE size.v

Values(s) == [i \in 1..Len(s) |-> ValueOf(s[i])]

\* the shape s (of user supplied ints) starts with the tuple T
StartsWith(s, T) == Len(s) >= Len(T) /\ SubSeq(Values(s), 1, Len(T)) = T

Stripped(s, T) == IF StartsWith(s, T) THEN SubSeq(s, Len(T) + 1, Len(s)) ELSE s

StrippedList(shapes, T) == [a \in 1..Len(shapes) |-> Stripped(shapes[a], T)]

SizePrefix(shapes, T) ==
    IF \E a \in 1..Len(shapes) : StartsWith(shapes[a], T) THEN T ELSE <<>>

\* C4: for a non-None size, broadcast_dist_samples_shape strips the size
\* from each shape that starts with it, broadcasts the stripped shapes to B
\* and returns size followed by B when some shape started with size, B
\* alone when none did; when the stripped shapes broadcast, the final
\* broadcast of the padded shapes does not fail.
C4_SizeThenBroadcast ==
    (/\ Called("broadcast_dist_samples_shape")
     /\ inp.size.tag # "None"
     /\ ~Clash(StrippedList(inp.shapes, SizeTuple(inp.size))))
    => (/\ out.kind = "return"
        /\ out.val = SizePrefix(inp.shapes, SizeTuple(inp.size))
                     \o NumpyBroadcast(StrippedList(inp.shapes, SizeTuple(inp.size))))

\* the sample shapes and to_shape, as broadcast_dist_samples_to hands them on
WithToShape(samples, to_shape) ==
    [a \in 1..Len(samples) |-> AsPyInts(samples[a])] \o <<to_shape.v>>

\* C5 as stated: on success, one array per sample, each of shape size
\* followed by to_shape.
C5_SizeThenToShape ==
    (/\ Called("broadcast_dist_samples_to")
     /\ out.kind = "return")
    => (/\ Len(out.val) = Len(inp.samples)
        /\ \A a \in 1..Len(out.val) :
              out.val[a] = SizeTuple(inp.size) \o Values(inp.to_shape.v))

\* C5 amended: on success, one array per sample, each of shape P followed by
\* B, where B is the NumPy broadcast of to_shape and the sample shapes, each
\* without its leading size, and P is the size tuple when to_shape or some
\* sample shape starts with it and is empty otherwise.
C5_SizeThenBroadcast ==
    (/\ Called("broadcast_dist_samples_to")
     /\ out.kind = "return")
    => (/\ Len(out.val) = Len(inp.samples)
        /\ \A a \in 1..Len(out.val) :
              out.val[a] =
                 SizePrefix(WithToShape(inp.samples, inp.to_shape), SizeTuple(inp.size))
                 \o NumpyBroadcast(StrippedList(WithToShape(inp.samples, inp.to_shape),
                                                SizeTuple(inp.size))))

\* C5 witness: the sample starts with the size and gets two new axes in the
\* middle, the result is neither to_shape nor the size followed by to_shape
C5_Witness ==
    /\ Called("broadcast_dist_samples_to")
    /\ inp.size = PyScalar(2)
    /\ inp.samples = <<<<2>>>>
    /\ inp.to_shape = PyTuple(<<PyInt(1), PyInt(2)>>)
    /\ out = Return(<<<<2, 1, 2>>>>)

---------------------------------------------------------------------------
(* Claims on convert_dims, convert_shape, convert_size *)

IsSequence(x) == x.tag \in {"list", "tuple"}

EllipsisPositions(q) == {i \in 1..Len(q) : q[i][1] = "Ellipsis"}

\* C6: convert_dims and convert_shape raise ValueError for every list or
\* tuple with an Ellipsis at a position other than the last and return, as
\* a tuple of the same elements, every one whose only Ellipsis is its last
\* element; convert_size raises ValueError for every list or tuple with an
\* Ellipsis anywhere.
C6_EllipsisPlacement ==
    (/\ pc = "done"
     /\ fn \in {"convert_dims", "convert_shape", "convert_size"}
     /\ IsSequence(inp))
    => /\ (/\ fn \in {"convert_dims", "convert_shape"}
           /\ EllipsisPositions(inp.v) \ {Len(inp.v)} # {})
          => out.kind = "ValueError"
       /\ (/\ fn \in {"convert_dims", "convert_shape"}
           /\ EllipsisPositions(inp.v) = {Len(inp.v)})
          => out = Return(Some(inp.v))
       /\ (/\ fn = "convert_size"
           /\ EllipsisPositions(inp.v) # {})
          => out.kind = "ValueError"

\* C6 witness: convert_size rejects the trailing Ellipsis convert_shape accepts
C6_Witness ==
    /\ Called("convert_size")
    /\ inp = [tag |-> "tuple", v |-> <<PyInt(2), ShapeEllipsis>>]
    /\ out.kind = "ValueError"

---------------------------------------------------------------------------
(* Claims on resize_from_dims *)

\* dims with a trailing Ellipsis replaced by ndim_implied None entries
Expanded(dims, n) ==
    IF Len(dims) > 0 /\ dims[Len(dims)] = DimEllipsis
    THEN SubSeq(dims, 1, Len(dims) - 1) \o [i \in 1..n |-> DimNone]
    ELSE dims

\* the number of leading dimensions to add by resizing
NdimResize(dims, n) == Len(Expanded(dims, n)) - n

RegisteredNames(m) == {DimName(x) : x \in DOMAIN m.dim_lengths}

\* the leading NdimResize entries of the expanded dims that are no key of
\* the registry
MissingDims(dims, n, m) ==
    {Expanded(dims, n)[i] : i \in 1..NdimResize(dims, n)} \ RegisteredNames(m)

\* C8: for every dims and ndim_implied >= 0 with all needed names
\* registered, resize_from_dims returns dims without Ellipsis (a trailing
\* Ellipsis replaced by ndim_implied None entries), ndim_resize =
\* len(returned dims) - ndim_implied and resize_shape = the registry
\* lengths of the first ndim_resize returned dims, in order, so that
\* len(resize_shape) = ndim_resize.
C8_ResizeFromDims ==
    (/\ Called("resize_from_dims")
     /\ MissingDims(inp.dims, inp.ndim_implied, model) = {})
    => (/\ out.kind = "return"
        /\ out.val[3] = Expanded(inp.dims, inp.ndim_implied)
        /\ \A i \in 1..Len(out.val[3]) : out.val[3][i] # DimEllipsis
        /\ out.val[1] = Len(out.val[3]) - inp.ndim_implied
        /\ out.val[2] = [i \in 1..out.val[1] |-> model.dim_lengths[out.val[3][i][2]]]
        /\ Len(out.val[2]) = out.val[1])

\* C9: resize_from_dims raises KeyError exactly when one of the leading
\* ndim_resize entries of the expanded dims is no key of model.dim_lengths,
\* the error names exactly those entries, entries at later positions are
\* not looked up, and the registry is left as it was.
C9_KeyErrorExactly ==
    Called("resize_from_dims")
    => (/\ out.kind = "KeyError" <=> MissingDims(inp.dims, inp.ndim_implied, model) # {}
        /\ out.kind = "KeyError" => out.val = MissingDims(inp.dims, inp.ndim_implied, model)
        /\ out.kind \in {"KeyError", "return"}
        /\ model = inp.model)

---------------------------------------------------------------------------
(* Claims on find_size and maybe_resize *)

HasEllipsis(q) == \E i \in 1..Len(q) : q[i] = ShapeEllipsis

\* the first n elements of q, none for n <= 0
FirstN(q, n) == [i \in 1..(IF n < Len(q) THEN n ELSE Len(q)) |-> q[i]]

AllNone(r) ==
    r.create_size = NoneVal /\ r.ndim_expected = NoneVal /\ r.ndim_batch = NoneVal

\* C7: find_size decides, in this order: shape without Ellipsis gives
\* ndim_expected = len(shape), ndim_batch = ndim_expected - ndim_supp and
\* create_size = the leading ndim_batch elements of shape; shape with
\* Ellipsis gives None for the three; otherwise a given size gives
\* ndim_expected = ndim_supp + len(size), ndim_batch = len(size),
\* create_size = size; neither given gives None for the three.  size is
\* ignored when shape is given; ndim_supp is returned unchanged.
C7_FindSizeCases ==
    Called("find_size")
    => /\ out.kind = "return"
       /\ out.val.ndim_supp = inp.ndim_supp
       /\ IF inp.shape # NoneVal /\ ~HasEllipsis(inp.shape[1])
          THEN /\ out.val.ndim_expected = Some(Len(inp.shape[1]))
               /\ out.val.ndim_batch = Some(Len(inp.shape[1]) - inp.ndim_supp)
               /\ out.val.create_size
                    = Some(FirstN(inp.shape[1], Len(inp.shape[1]) - inp.ndim_supp))
          ELSE IF inp.shape # NoneVal
          THEN AllNone(out.val)
          ELSE IF inp.size # NoneVal
          THEN /\ out.val.ndim_expected = Some(inp.ndim_supp + Len(inp.size[1]))
               /\ out.val.ndim_batch = Some(Len(inp.size[1]))
               /\ out.val.create_size = inp.size
          ELSE AllNone(out.val)

EffectsOf(call) == SelectSeq(out.val.effects, LAMBDA e : e.call = call)

\* C10: in maybe_resize, when shape is given without Ellipsis and
\* rv_out.ndim differs from ndim_expected, the variable is recreated exactly
\* once by rv_op with size=None, first of all, then expand-resized by
\* shape[:ndim_expected - ndim] exactly if the recreated variable has fewer
\* than ndim_expected dimensions; the call returns a variable of
\* ndim_expected dimensions or raises ShapeError, and it raises ShapeError
\* exactly when the recreated variable has more than ndim_expected
\* dimensions (an expand-resize adding len(new_size) dimensions).
C10_RecreateThenResize ==
    (/\ Called("maybe_resize")
     /\ inp.shape # NoneVal
     /\ ~HasEllipsis(inp.shape[1])
     /\ differs(inp.rv_out.ndim, inp.ndim_expected))
    => LET E == inp.ndim_expected[1]
           recreations == EffectsOf("rv_op")
           resizes == EffectsOf("change_rv_size")
           r == recreations[1].ndim
       IN  /\ Len(recreations) = 1
           /\ out.val.effects[1] = recreations[1]
           /\ recreations[1].arg = NoneVal
           /\ IF r < E
              THEN /\ Len(resizes) = 1
                   /\ out.val.effects[2] = resizes[1]
                   /\ resizes[1].arg = FirstN(inp.shape[1], E - r)
              ELSE Len(resizes) = 0
           /\ out.kind \in {"return", "ShapeError"}
           /\ out.kind = "return" => out.val.rv.ndim = E
           /\ out.kind = "ShapeError" <=> r > E

\* C10 witness: shape (2, 3) of an RV with one support dimension, created
\* with three dimensions, recreated with one and expand-resized by (2,)
C10_Witness ==
    /\ Called("maybe_resize")
    /\ inp.shape = Some(<<PyInt(2), PyInt(3)>>)
    /\ inp.ndim_supp = 1
    /\ inp.rv_out.ndim = 3
    /\ out = Return([rv |-> [ndim |-> 2, by |-> "change_rv_size"],
                     effects |-> <<Effect("rv_op", NoneVal, 1),
                                   Effect("change_rv_size", <<PyInt(2)>>, 2)>>])

\* ndim_actual != ndim_expected as Python decides it: an int differs from None
NdimsUnexpected ==
    inp.ndim_expected = NoneVal \/ inp.rv_out.ndim # inp.ndim_expected[1]

\* the elements of q before its first Ellipsis
BeforeEllipsis(q) ==
    LET k == CHOOSE i \in 1..Len(q) :
                 q[i] = ShapeEllipsis /\ \A j \in 1..(i - 1) : q[j] # ShapeEllipsis
    IN  [i \in 1..(k - 1) |-> q[i]]

\* C11: in maybe_resize, when shape is given and ends in Ellipsis,
\* find_size returns None for ndim_expected, and whenever rv_out.ndim
\* differs from ndim_expected (always when ndim_expected is None) the
\* variable is expand-resized exactly once, new_size being the elements of
\* shape before the Ellipsis; rv_op is never called, no error is raised and
\* the variable returned is the resized one.
C11_EllipsisExpandOnce ==
    (/\ Called("maybe_resize")
     /\ inp.shape # NoneVal
     /\ HasEllipsis(inp.shape[1]))
    => /\ find_size(inp.shape, inp.size, inp.ndim_supp).ndim_expected = NoneVal
       /\ NdimsUnexpected
          => LET prefix == BeforeEllipsis(inp.shape[1])
                 resizes == EffectsOf("change_rv_size")
             IN  /\ out.kind = "return"
                 /\ Len(resizes) = 1
                 /\ resizes[1].arg = prefix
                 /\ Len(EffectsOf("rv_op")) = 0
                 /\ out.val.rv = [ndim |-> inp.rv_out.ndim + Len(prefix),
                                  by |-> "change_rv_size"]

\* C11 witness: shape (2, ...) with ndim_expected None: a variable of one
\* dimension is expand-resized once by (2,)
C11_Witness ==
    /\ Called("maybe_resize")
    /\ inp.shape = Some(<<PyInt(2), ShapeEllipsis>>)
    /\ inp.size = NoneVal
    /\ inp.ndim_expected = NoneVal
    /\ inp.rv_out.ndim = 1
    /\ out = Return([rv |-> [ndim |-> 2, by |-> "change_rv_size"],
                     effects |-> <<Effect("change_rv_size", <<PyInt(2)>>, 2)>>])

\* C12: in maybe_resize, when size is given, shape is None and rv_out.ndim
\* differs from ndim_expected, exactly one warning is emitted and nothing
\* else happens: no exception, no call of rv_op, no resize, the variable
\* returned is rv_out; and a warning is emitted, at most once, only when
\* size is given and the ndim measured at entry, the one the warning
\* reports, differs from ndim_expected.
C12_WarnOnly ==
    Called("maybe_resize")
    => LET warnings == EffectsOf("warn")
       IN  /\ (inp.size # NoneVal /\ inp.shape = NoneVal /\ NdimsUnexpected)
              => /\ out.kind = "return"
                 /\ out.val.effects = <<Effect("warn", <<>>, inp.rv_out.ndim)>>
                 /\ out.val.rv = inp.rv_out
           /\ Len(warnings) <= 1
           /\ Len(warnings) = 1
              => /\ inp.size # NoneVal
                 /\ NdimsUnexpected
                 /\ warnings[1].ndim = inp.rv_out.ndim

\* C12 witness: size (2,) of a univariate RV created with three dimensions
C12_Witness ==
    /\ Called("maybe_resize")
    /\ inp.shape = NoneVal
    /\ inp.size = Some(<<PyInt(2)>>)
    /\ inp.ndim_expected = Some(1)
    /\ inp.rv_out.ndim = 3
    /\ out = Return([rv |-> [ndim |-> 3, by |-> "caller"],
                     effects |-> <<Effect("warn", <<>>, 3)>>])

\* C13: maybe_resize is a no-op whenever rv_out.ndim equals ndim_expected
\* and whenever shape and size are both None, whatever the other
\* arguments: it returns rv_out itself, calls neither rv_op nor the resize,
\* emits no warning and raises no error.
C13_NoOp ==
    (/\ Called("maybe_resize")
     /\ \/ ~NdimsUnexpected
        \/ inp.shape = NoneVal /\ inp.size = NoneVal)
    => out = Return([rv |-> inp.rv_out, effects |-> <<>>])

\* C13 witness: shape (2, 3) and size (2,) given, rv_out of the two
\* dimensions expected
C13_Witness ==
    /\ Called("maybe_resize")
    /\ inp.shape = Some(<<PyInt(2), PyInt(3)>>)
    /\ inp.size = Some(<<PyInt(2)>>)
    /\ inp.ndim_expected = Some(2)
    /\ inp.rv_out.ndim = 2
    /\ out = Return([rv |-> [ndim |-> 2, by |-> "caller"], effects |-> <<>>])

\* C14: for every shape without Ellipsis, every ndim_supp >= 0 (also above
\* len(shape)) and every size, a create_size that find_size returns, when
\* not None, has ndim_batch elements, ndim_batch >= 0 and
\* ndim_expected = ndim_batch + ndim_supp.
C14_CreateSizeLength ==
    (/\ Called("find_size")
     /\ inp.shape = NoneVal \/ ~HasEllipsis(inp.shape[1])
     /\ out.val.create_size # NoneVal)
    => /\ out.val.ndim_batch # NoneVal
       /\ out.val.ndim_expected # NoneVal
       /\ Len(out.val.create_size[1]) = out.val.ndim_batch[1]
       /\ out.val.ndim_batch[1] >= 0
       /\ out.val.ndim_expected[1] = out.val.ndim_batch[1] + out.val.ndim_supp

===========================================================================
